---- MODULE Spec2Model ----
(***************************************************************************)
(* RenderManager (src/lib/rendermanager.js): the scheduler of render jobs  *)
(* of generator-assets.  A manager object holds three job collections      *)
(* (_workSet, _pending, _working), the caches of the svg and pixmap        *)
(* renderers of the documents, and the handle of a debounce timer.         *)
(* render() records a job and arms the timer,                              *)
(* the timer's callback runs _processWorkSet(), which moves jobs from      *)
(* _pending to _working and starts their render operations, and the        *)
(* completion callback of a render operation removes the job from          *)
(* _working and runs _processWorkSet() again.                              *)
(*                                                                         *)
(* The Node event loop runs one callback at a time, so every handler is    *)
(* one atomic action.                                                      *)
(***************************************************************************)
EXTENDS Integers, Sequences, FiniteSets, TLC

\* var CHANGE_DELAY = 1000 (milliseconds)
CHANGE_DELAY == 1000

\* MAX_JOBS = os.cpus().length, here a host with two cpus
MAX_JOBS == 2

\* the deferreds made in one run: each job owns the deferred Q.defer() made for it
MaxDeferred == 4

\* the nested calls of _processWorkSet followed in one drain
MaxDepth == 6

\* the components render() and cancel() are called for: a component id names one
\* component of one layer of one document
ComponentIds == {1, 2, 3, 4}
ComponentOf(componentId) == [extension |-> IF componentId \in {1, 3} THEN "svg" ELSE "png"]
LayerOf(componentId) == [id |-> 10 + componentId]
DocumentOf(componentId) == [id |-> IF componentId \in {1, 2} THEN 1 ELSE 2]
DocumentIds == {DocumentOf(componentId).id : componentId \in ComponentIds}

\* the renderers the factory makes: createSVGRenderer, createPixmapRenderer
Kinds == {"svg", "pixmap"}

\* the bounds a resolved getPixmap(..., {boundsOnly: true}) reports
PixmapBounds == {"b1"}

\* how far the clock moves in one step (milliseconds)
Ticks == {500, 1000}

VARIABLES
    _workSet,           \* this._workSet: Null, or Obj(map componentId -> job)
    _pending,           \* this._pending: map componentId -> job
    _working,           \* this._working: map componentId -> job
    _changeTimer,       \* this._changeTimer: NoTimer (null) or a timer's id
    _pixmapRenderers,   \* this._pixmapRenderers: map document id -> renderer
    _svgRenderers,      \* this._svgRenderers: map document id -> renderer
    made,               \* the renderers the factory has made, counted by kind and document id
    deferreds,          \* the state of every deferred made by Q.defer(), by id
    timers,             \* the timers made by setTimeout and still to fire, by id
    renders,            \* the render operations started by _renderComponent, by job
    last,               \* the handler that ran last and what it threw
    cancelled           \* the component ids cancel() has removed a job of

vars == <<_workSet, _pending, _working, _changeTimer, _pixmapRenderers,
          _svgRenderers, made, deferreds, timers, renders, last, cancelled>>

----------------------------------------------------------------------------
\* JavaScript values

\* null, as the value of this._workSet
Null == <<>>

\* an object holding the own properties m
Obj(m) == <<m>>

\* the own properties of the object o
Props(o) == o[1]

\* {}
EmptyMap == [k \in {} |-> 0]

\* m[k] = v
Put(m, k, v) == [x \in (DOMAIN m) \cup {k} |-> IF x = k THEN v ELSE m[x]]

\* delete m[k]
Remove(m, k) == [x \in (DOMAIN m) \ {k} |-> m[x]]

\* null, as the value of this._changeTimer (every timer id is >= 1)
NoTimer == 0

Min(S) == CHOOSE x \in S : \A y \in S : x <= y

\* Object.keys(m)[0]: integer keys enumerate in ascending order
FirstKey(m) == Min(DOMAIN m)

\* the record render() stores for a job
Job(deferred, document, layer, component) ==
    [deferred |-> deferred, document |-> document,
     layer |-> layer, component |-> component]

\* what the handler that ran last was and what it threw
Ran(op, threw) == [op |-> op, threw |-> threw]

\* a timer made by setTimeout(callback, delay), and the time it has run
Timer(delay) == [delay |-> delay, elapsed |-> 0]

\* the timers whose callback is still to be called
LiveTimers == DOMAIN timers

\* the id of a new timer: one that no live timer and no handle holds
NewTimer == Min((1..(Cardinality(LiveTimers) + 2)) \ (LiveTimers \cup {_changeTimer}))

\* deferred.reject(): a deferred settles once, a later settlement is ignored (Q)
Reject(ds, d) == IF ds[d] = "pending" THEN [ds EXCEPT ![d] = "rejected"] ELSE ds

----------------------------------------------------------------------------
\* The fields _processWorkSet and _renderComponent read and write, as one record

Manager ==
    [pending |-> _pending, working |-> _working, changeTimer |-> _changeTimer,
     pixmapRenderers |-> _pixmapRenderers, svgRenderers |-> _svgRenderers,
     renders |-> renders, made |-> made, threw |-> FALSE, depth |-> 0]

Becomes(s) ==
    /\ _pending' = s.pending
    /\ _working' = s.working
    /\ _changeTimer' = s.changeTimer
    /\ _pixmapRenderers' = s.pixmapRenderers
    /\ _svgRenderers' = s.svgRenderers
    /\ renders' = s.renders
    /\ made' = s.made

\* what a handler that ended in state s threw
Threw(s) == IF s.threw THEN "Error" ELSE "none"

\* createSVGRenderer(generator, document), createPixmapRenderer(generator,
\* document): the factory makes a renderer of the kind for the document, or fails
\* by throwing (for the documents in broken)
createRenderer(s, kind, document, broken) ==
    IF document.id \in broken
    THEN [s EXCEPT !.threw = TRUE]
    ELSE [s EXCEPT !.made[<<kind, document.id>>] = @ + 1]

\* the renderer of kind the factory made last for the document
Renderer(s, kind, document) ==
    [kind |-> kind, document |-> document.id, serial |-> s.made[<<kind, document.id>>]]

\* no renderer is found cached
cachedNever(renderers, document) == FALSE

\* this._pixmapRenderers.hasOwnProperty(document.id),
\* this._svgRenderers.hasOwnProperty(document.id)
cached(renderers, document) == document.id \in DOMAIN renderers

\* _getPixmapRenderer(document): the renderer of the document is made on the
\* first call and cached
getPixmapRenderer(s, document, broken) ==
    IF cached(s.pixmapRenderers, document)
    THEN s
    ELSE LET c == createRenderer(s, "pixmap", document, broken)
         IN  IF c.threw
             THEN c
             ELSE [c EXCEPT !.pixmapRenderers =
                              Put(@, document.id, Renderer(c, "pixmap", document))]

\* _getSVGRenderer(document)
getSVGRenderer(s, document, broken) ==
    IF cached(s.svgRenderers, document)
    THEN s
    ELSE LET c == createRenderer(s, "svg", document, broken)
         IN  IF c.threw
             THEN c
             ELSE [c EXCEPT !.svgRenderers =
                              Put(@, document.id, Renderer(c, "svg", document))]

\* a render operation of a job: the componentId and layer its callbacks hold, the
\* call that is outstanding (stage), the calls made so far and the exactBounds
\* given to the renderer
RenderOp(componentId, job, stage, exactBounds) ==
    [componentId |-> componentId, document |-> job.document, layer |-> job.layer,
     component |-> job.component, stage |-> stage, calls |-> <<stage>>,
     exactBounds |-> exactBounds]

\* no component is taken for an svg
isVectorNever(component) == FALSE

\* component.extension === "svg"
isVector(component) == component.extension = "svg"

\* _renderComponent(document, layer, component), for the job of componentId
renderComponent(s, componentId, job, broken) ==
    IF isVector(job.component)
    THEN LET g == getPixmapRenderer(s, job.document, broken)
         IN  IF g.threw
             THEN g
             ELSE [g EXCEPT
                     !.renders = Put(@, job.deferred,
                                     RenderOp(componentId, job, "render", "undefined"))]
    ELSE [s EXCEPT
            !.renders = Put(@, job.deferred,
                            RenderOp(componentId, job, "getPixmap", "undefined"))]

\* the cap is never found reached
capReachedNever(keys) == FALSE

\* keys.length >= MAX_JOBS, keys the keys of _pending
capReached(keys) == Cardinality(keys) >= MAX_JOBS

\* the job is put in _working and stays in _pending
moveJobKept(s, componentId) ==
    [s EXCEPT !.working = Put(@, componentId, s.pending[componentId])]

\* job = this._pending[componentId]; delete this._pending[componentId];
\* this._working[componentId] = job
moveJob(s, componentId) ==
    [s EXCEPT !.pending = Remove(@, componentId),
              !.working = Put(@, componentId, s.pending[componentId])]

\* _processWorkSet(): s.depth counts the nested calls; a throw of
\* _renderComponent ends every call of the chain
RECURSIVE processWorkSet(_, _)
processWorkSet(s, broken) ==
    LET keys == DOMAIN s.pending
        entered == [s EXCEPT !.depth = @ + 1]
    IN  IF s.depth >= MaxDepth
        THEN s
        ELSE IF capReached(keys)
        THEN entered
        ELSE IF Cardinality(keys) > 0
        THEN LET componentId == FirstKey(s.pending)
                 job == s.pending[componentId]
                 started == renderComponent(moveJob(entered, componentId),
                                            componentId, job, broken)
             IN  IF started.threw THEN started ELSE processWorkSet(started, broken)
        ELSE [entered EXCEPT !.changeTimer = NoTimer]

\* .finally(function () { delete this._working[componentId]; this._processWorkSet(); })
finally(s, componentId, broken) ==
    processWorkSet([s EXCEPT !.working = Remove(@, componentId)], broken)

----------------------------------------------------------------------------
\* The operations of a manager

\* no job is found for any component id
hasJobNever(workSet, componentId) == FALSE

\* this._workSet.hasOwnProperty(componentId)
hasJob(workSet, componentId) == componentId \in DOMAIN Props(workSet)

\* half the quiet period
armDelayShort == CHANGE_DELAY - 500

\* the delay render() gives setTimeout
armDelay == CHANGE_DELAY

\* render(document, layer, component, componentId)
render(document, layer, component, componentId) ==
    IF _workSet = Null
    THEN \* this._workSet.hasOwnProperty of null
         /\ last' = Ran("render", "TypeError") /\ UNCHANGED cancelled
         /\ UNCHANGED <<_workSet, _pending, _working, _changeTimer,
                        _pixmapRenderers, _svgRenderers, made,
                        deferreds, timers, renders>>
    ELSE IF hasJob(_workSet, componentId)
    THEN /\ last' = Ran("render", "Error") /\ UNCHANGED cancelled
         /\ UNCHANGED <<_workSet, _pending, _working, _changeTimer,
                        _pixmapRenderers, _svgRenderers, made,
                        deferreds, timers, renders>>
    ELSE /\ Len(deferreds) < MaxDeferred
         /\ deferreds' = Append(deferreds, "pending")
         /\ _workSet' = Obj(Put(Props(_workSet), componentId,
                                Job(Len(deferreds) + 1, document, layer, component)))
         /\ IF _changeTimer = NoTimer
            THEN /\ timers' = Put(timers, NewTimer, Timer(armDelay))
                 /\ _changeTimer' = NewTimer
            ELSE UNCHANGED <<timers, _changeTimer>>
         /\ last' = Ran("render", "none") /\ UNCHANGED cancelled
         /\ UNCHANGED <<_pending, _working, _pixmapRenderers, _svgRenderers, made,
                        renders>>

\* the deferred of every job of set is rejected
rejectJobs(set, componentId) ==
    [d \in DOMAIN deferreds |->
        IF \E c \in DOMAIN set : set[c].deferred = d
        THEN Reject(deferreds, d)[d]
        ELSE deferreds[d]]

\* job = set[componentId]; job.deferred.reject()
rejectJob(set, componentId) == Reject(deferreds, set[componentId].deferred)

\* the job stays in set
deleteJobNot(set, componentId) == set

\* delete set[componentId]
deleteJob(set, componentId) == Remove(set, componentId)

\* cancel(componentId)
cancel(componentId) ==
    IF componentId \in DOMAIN _pending
    THEN /\ _pending' = deleteJob(_pending, componentId)
         /\ deferreds' = rejectJob(_pending, componentId)
         /\ last' = Ran("cancel", "none")
         /\ cancelled' = cancelled \cup {componentId}
         /\ UNCHANGED <<_workSet, _working, _changeTimer, _pixmapRenderers,
                        _svgRenderers, made, timers, renders>>
    ELSE IF componentId \in DOMAIN _working
    THEN /\ _working' = deleteJob(_working, componentId)
         /\ deferreds' = rejectJob(_working, componentId)
         /\ last' = Ran("cancel", "none")
         /\ cancelled' = cancelled \cup {componentId}
         /\ UNCHANGED <<_workSet, _pending, _changeTimer, _pixmapRenderers,
                        _svgRenderers, made, timers, renders>>
    ELSE \* set is undefined: set[componentId] throws
         /\ last' = Ran("cancel", "TypeError") /\ UNCHANGED cancelled
         /\ UNCHANGED <<_workSet, _pending, _working, _changeTimer,
                        _pixmapRenderers, _svgRenderers, made,
                        deferreds, timers, renders>>

\* finish(): this._document is null, so this._document.off throws after the
\* assignment to this._workSet
finish ==
    /\ _workSet' = Obj(EmptyMap)
    /\ last' = Ran("finish", "TypeError") /\ UNCHANGED cancelled
    /\ UNCHANGED <<_pending, _working, _changeTimer, _pixmapRenderers,
                   _svgRenderers, made, deferreds, timers, renders>>

\* the clock moves by d: every timer still to fire has run d longer
Advance(d) ==
    /\ \E t \in LiveTimers : timers[t].elapsed < timers[t].delay
    /\ timers' = [t \in LiveTimers |->
                    [timers[t] EXCEPT
                       !.elapsed = IF @ + d > timers[t].delay
                                   THEN timers[t].delay ELSE @ + d]]
    /\ UNCHANGED <<_workSet, _pending, _working, _changeTimer, _pixmapRenderers,
                   _svgRenderers, made, deferreds, renders, last, cancelled>>

\* the callback of timer t: function () { this._processWorkSet(); }
TimerFire(t, broken) ==
    /\ t \in LiveTimers
    /\ timers[t].elapsed >= timers[t].delay
    /\ timers' = Remove(timers, t)
    /\ LET s == processWorkSet(Manager, broken)
       IN  Becomes(s) /\ last' = Ran("timer", Threw(s))
    /\ UNCHANGED <<_workSet, deferreds, cancelled>>

\* the render operations with a call outstanding
Outstanding(stage) == {d \in DOMAIN renders : renders[d].stage = stage}

\* the render operation d ends in stage: .fail logs a failure, .finally runs
Ends(d, stage, broken) ==
    LET s == finally([Manager EXCEPT !.renders[d].stage = stage],
                     renders[d].componentId, broken)
    IN  Becomes(s) /\ last' = Ran("finally", Threw(s))

\* getPixmap resolves with bounds: the .then callback gets the renderer and
\* calls its render with exactBounds; the render operation fails if the callback
\* throws
GetPixmapResolve(d, bounds, broken) ==
    /\ d \in Outstanding("getPixmap")
    /\ LET g == getPixmapRenderer(Manager, renders[d].document, broken)
       IN  IF g.threw
           THEN Ends(d, "rejected", broken)
           ELSE /\ Becomes([g EXCEPT !.renders[d].stage = "render",
                                     !.renders[d].calls = Append(@, "render"),
                                     !.renders[d].exactBounds = bounds])
                /\ last' = Ran("then", "none")
    /\ UNCHANGED <<_workSet, deferreds, timers, cancelled>>

\* getPixmap fails
GetPixmapReject(d, broken) ==
    /\ d \in Outstanding("getPixmap")
    /\ Ends(d, "rejected", broken)
    /\ UNCHANGED <<_workSet, deferreds, timers, cancelled>>

\* the renderer's render resolves
RenderResolve(d, broken) ==
    /\ d \in Outstanding("render")
    /\ Ends(d, "fulfilled", broken)
    /\ UNCHANGED <<_workSet, deferreds, timers, cancelled>>

\* the renderer's render fails
RenderReject(d, broken) ==
    /\ d \in Outstanding("render")
    /\ Ends(d, "rejected", broken)
    /\ UNCHANGED <<_workSet, deferreds, timers, cancelled>>

----------------------------------------------------------------------------
\* The manager as constructed: new RenderManager(generator)

Init ==
    /\ _workSet = Null
    /\ _pending = EmptyMap
    /\ _working = EmptyMap
    /\ _changeTimer = NoTimer
    /\ _pixmapRenderers = EmptyMap
    /\ _svgRenderers = EmptyMap
    /\ made = [p \in Kinds \X DocumentIds |-> 0]
    /\ deferreds = <<>>
    /\ timers = EmptyMap
    /\ renders = EmptyMap
    /\ last = Ran("new", "none")
    /\ cancelled = {}

Call ==
    \/ \E componentId \in ComponentIds :
            render(DocumentOf(componentId), LayerOf(componentId),
                   ComponentOf(componentId), componentId)
    \/ \E componentId \in ComponentIds : cancel(componentId)
    \/ finish

Clock ==
    \/ \E d \in Ticks : Advance(d)
    \/ \E t \in LiveTimers, broken \in SUBSET DocumentIds : TimerFire(t, broken)

\* No job enters _pending, so no render operation is started and no completion
\* callback is registered: the callbacks are no steps of Spec (NothingStarted)
Next == Call \/ Clock

Spec == Init /\ [][Next]_vars

\* The timer callbacks run and the clock moves; nobody has to call the manager
FairSpec == Spec /\ WF_vars(Clock)

\* under Spec, no render operation is ever started
NothingStarted == _pending = EmptyMap /\ _working = EmptyMap /\ renders = EmptyMap

----------------------------------------------------------------------------
\* The dispatcher on its input.  No operation of the manager writes _pending
\* (render() writes _workSet), so _processWorkSet, cancel and the completion
\* callbacks act on jobs only if _pending was filled from outside the methods.
\* InitDispatch is the constructed manager with such jobs in _pending.

\* the rank of componentId among the ids S
Rank(S, componentId) == Cardinality({x \in S : x <= componentId})

InitDispatch ==
    /\ _workSet = Null
    /\ \E S \in SUBSET ComponentIds :
        /\ _pending = [c \in S |-> Job(Rank(S, c), DocumentOf(c), LayerOf(c),
                                        ComponentOf(c))]
        /\ deferreds = [i \in 1..Cardinality(S) |-> "pending"]
    /\ _working = EmptyMap
    /\ _changeTimer = NoTimer
    /\ _pixmapRenderers = EmptyMap
    /\ _svgRenderers = EmptyMap
    /\ made = [p \in Kinds \X DocumentIds |-> 0]
    /\ timers = EmptyMap
    /\ renders = EmptyMap
    /\ last = Ran("new", "none")
    /\ cancelled = {}

Settle ==
    \/ \E d \in DOMAIN renders, bounds \in PixmapBounds, broken \in SUBSET DocumentIds :
            GetPixmapResolve(d, bounds, broken)
    \/ \E d \in DOMAIN renders, broken \in SUBSET DocumentIds : GetPixmapReject(d, broken)
    \/ \E d \in DOMAIN renders, broken \in SUBSET DocumentIds : RenderResolve(d, broken)
    \/ \E d \in DOMAIN renders, broken \in SUBSET DocumentIds : RenderReject(d, broken)

NextDispatch == Call \/ Clock \/ Settle

SpecDispatch == InitDispatch /\ [][NextDispatch]_vars

\* every outstanding call of a render operation settles
FairSpecDispatch == SpecDispatch /\ WF_vars(Clock) /\ WF_vars(Settle)

----------------------------------------------------------------------------
\* The renderer getters called on the manager as constructed, between the calls
\* of its operations

Documents == {DocumentOf(componentId) : componentId \in ComponentIds}

\* m._getPixmapRenderer(document)
GetPixmapRendererCall(document, broken) ==
    /\ LET s == getPixmapRenderer(Manager, document, broken)
       IN  Becomes(s) /\ last' = Ran("_getPixmapRenderer", Threw(s))
    /\ UNCHANGED <<_workSet, deferreds, timers, cancelled>>

\* m._getSVGRenderer(document)
GetSVGRendererCall(document, broken) ==
    /\ LET s == getSVGRenderer(Manager, document, broken)
       IN  Becomes(s) /\ last' = Ran("_getSVGRenderer", Threw(s))
    /\ UNCHANGED <<_workSet, deferreds, timers, cancelled>>

Getters ==
    \/ \E document \in Documents, broken \in SUBSET DocumentIds :
            GetPixmapRendererCall(document, broken)
    \/ \E document \in Documents, broken \in SUBSET DocumentIds :
            GetSVGRendererCall(document, broken)

NextRenderers == Call \/ Getters

SpecRenderers == Init /\ [][NextRenderers]_vars

----------------------------------------------------------------------------
\* The claims

RenderCall(c) == render(DocumentOf(c), LayerOf(c), ComponentOf(c), c)

\* the deferreds of the jobs render() has recorded and finish() has not dropped
Submitted == IF _workSet = Null THEN {}
             ELSE {Props(_workSet)[c].deferred : c \in DOMAIN Props(_workSet)}

\* the render operations started and not yet completed or failed
InFlight == Outstanding("getPixmap") \cup Outstanding("render")

\* the timer's callback runs a drain
TimerDrain == \E t \in DOMAIN timers, broken \in SUBSET DocumentIds : TimerFire(t, broken)

\* the render operation d completes or fails, and its .finally callback runs a drain
Completes(d) ==
    \E broken \in SUBSET DocumentIds :
        \/ RenderResolve(d, broken)
        \/ RenderReject(d, broken)
        \/ GetPixmapReject(d, broken)
        \/ \E bounds \in PixmapBounds :
              GetPixmapResolve(d, bounds, broken) /\ renders'[d].stage = "rejected"

\* componentId has a job in some collection of the manager
Tracked(c) ==
    \/ _workSet # Null /\ c \in DOMAIN Props(_workSet)
    \/ c \in DOMAIN _pending
    \/ c \in DOMAIN _working

\* C1: in every reachable state the number of jobs in the Running set (_working)
\* is at most MAX_JOBS.
C1_RunningWithinCap == Cardinality(DOMAIN _working) <= MAX_JOBS

\* a drain has promoted a job
C1_Witness == _working # EmptyMap /\ last.op = "timer"

\* C2: every job submitted through render() and not dropped is eventually
\* promoted (its render operation is started), the timers firing and the render
\* operations completing.
C2_SubmittedJobPromoted ==
    \A d \in 1..MaxDeferred :
        (d \in Submitted) ~> (d \in DOMAIN renders \/ d \notin Submitted)

\* C3: render() for a component id that has no job returns without raising an
\* error, leaves the id recorded as a job and leaves a timer armed, in every
\* state, the state after construction included.
C3_RenderQueuesJob ==
    [][\A c \in ComponentIds :
         (RenderCall(c) /\ ~Tracked(c))
            => /\ last'.threw = "none"
               /\ _workSet' # Null
               /\ c \in DOMAIN Props(_workSet')
               /\ _changeTimer' \in DOMAIN timers']_vars

\* C4: render() for a component id that already has a job raises an error, and
\* the job records, the deferreds and the timer are left as they were.
C4_DuplicateRenderThrows ==
    [][\A c \in ComponentIds :
         (RenderCall(c) /\ _workSet # Null /\ c \in DOMAIN Props(_workSet))
            => /\ last'.threw = "Error"
               /\ UNCHANGED <<_workSet, _pending, _working, _changeTimer,
                              _pixmapRenderers, _svgRenderers, made,
                              deferreds, timers, renders>>]_vars

\* render() was called for a component id that has a job, and threw
C4_Witness == last = Ran("render", "Error")

\* C5: a drain by the timer happens only in the callback of a timer that has run
\* for the full quiet period CHANGE_DELAY, and a render operation is started only
\* in such a callback or in the drain run when an earlier render operation
\* completes or fails.
C5_NoDrainBeforeQuietPeriod ==
    [][/\ TimerDrain
            => \E t \in DOMAIN timers :
                  /\ t \notin DOMAIN timers'
                  /\ timers[t].elapsed >= CHANGE_DELAY
       /\ DOMAIN renders' # DOMAIN renders
            => \/ \E t \in DOMAIN timers :
                    /\ t \notin DOMAIN timers'
                    /\ timers[t].elapsed >= CHANGE_DELAY
               \/ \E d \in DOMAIN renders : Completes(d)]_vars

\* the timer's drain has run and started a render operation
C5_Witness == last.op = "timer" /\ renders # EmptyMap

\* the deferreds of the jobs of componentId that are submitted and not promoted
QueuedJobs(c) ==
    (IF c \in DOMAIN _pending THEN {_pending[c].deferred} ELSE {})
    \cup (IF _workSet # Null /\ c \in DOMAIN Props(_workSet)
          THEN {Props(_workSet)[c].deferred} \ DOMAIN renders ELSE {})

\* C6: cancel(componentId) of a job that is submitted and not promoted removes
\* the job, rejects its deferred, and no render operation is started for it later.
C6_CancelQueuedRemoves ==
    [][/\ \A c \in ComponentIds :
            (cancel(c) /\ QueuedJobs(c) # {})
               => /\ c \notin DOMAIN _pending'
                  /\ ~(_workSet' # Null /\ c \in DOMAIN Props(_workSet'))
                  /\ \A d \in QueuedJobs(c) : deferreds'[d] = "rejected"
       /\ \A d \in DOMAIN deferreds :
            (deferreds[d] = "rejected" /\ d \notin DOMAIN renders)
               => d \notin DOMAIN renders']_vars

\* the jobs in _working
Running == {_working[c].deferred : c \in DOMAIN _working}

\* C7: cancel(componentId) of a Running job rejects its deferred, the deferred is
\* not settled again when the render operation completes or fails, and the
\* Running set holds no cancelled job and holds every job whose render operation
\* is in flight and that was not cancelled.
C7_CancelRunning ==
    /\ [](/\ \A d \in Running : deferreds[d] # "rejected"
          /\ {d \in InFlight : deferreds[d] # "rejected"} \subseteq Running)
    /\ [][/\ \A c \in DOMAIN _working :
               cancel(c) => deferreds'[_working[c].deferred] = "rejected"
          /\ \A d \in DOMAIN deferreds :
               deferreds[d] = "rejected" => deferreds'[d] = "rejected"]_vars

\* a Running job was cancelled and its render operation has completed since
C7_Witness ==
    \E d \in DOMAIN renders :
        /\ renders[d].stage = "fulfilled"
        /\ deferreds[d] = "rejected"

AllTerminal ==
    /\ _workSet = Null \/ _workSet = Obj(EmptyMap)
    /\ _pending = EmptyMap
    /\ _working = EmptyMap
    /\ InFlight = {}

\* C9: once every job is terminal the timer handle is eventually cleared, and a
\* render() called then arms a new timer.
C9_QuiescentThenRearm ==
    /\ AllTerminal ~> (_changeTimer = NoTimer \/ ~AllTerminal)
    /\ [][\A c \in ComponentIds :
            (AllTerminal /\ _changeTimer = NoTimer /\ RenderCall(c))
               => (_changeTimer' # NoTimer /\ _changeTimer' \in DOMAIN timers')]_vars

\* componentId has no job, and had a job that was promoted and whose render
\* operation completed or failed, or that was cancelled
Ended(c) ==
    /\ ~Tracked(c)
    /\ \/ c \in cancelled
       \/ \E d \in DOMAIN renders : renders[d].componentId = c /\ d \notin InFlight

Pending == {_pending[c].deferred : c \in DOMAIN _pending}

\* the jobs in some collection of the manager
TrackedJobs == Submitted \cup Pending \cup Running

MinOf(a, b) == IF a <= b THEN a ELSE b

\* a drain that started with r jobs Running has promoted as many jobs of _pending
\* as the free slots allow: Running is at the cap or nothing is left in _pending
Drained(r) ==
    /\ Cardinality(DOMAIN _working') = MAX_JOBS \/ _pending' = EmptyMap
    /\ Cardinality(Pending) - Cardinality(Pending')
          = MinOf(Cardinality(Pending), MAX_JOBS - r)

Queued == UNION {QueuedJobs(c) : c \in ComponentIds}

C14_HandleClearedIffIdle ==
    /\ [](_changeTimer = NoTimer <=> (Queued = {} /\ Running = {}))
    /\ [][(_changeTimer # NoTimer /\ _changeTimer' = NoTimer) => Running' = {}]_vars

C16_QueuedWorkHasTimer ==
    /\ (Queued # {} /\ Running = {}) => LiveTimers # {}
    /\ _changeTimer # NoTimer => _changeTimer \in LiveTimers

\* C17: the render operation of an svg component issues no getPixmap and calls
\* the renderer's render with no exactBounds; the render operation of any other
\* component issues getPixmap first and calls the renderer's render only in the
\* callback of the getPixmap that resolved, with the bounds it resolved with; once
\* getPixmap has failed, render is never called.
C17_BoundsQueryBeforeRender ==
    /\ [](\A d \in DOMAIN renders :
            IF renders[d].component.extension = "svg"
            THEN /\ renders[d].calls = <<"render">>
                 /\ renders[d].exactBounds = "undefined"
            ELSE \/ /\ renders[d].calls = <<"getPixmap">>
                    /\ renders[d].exactBounds = "undefined"
                 \/ /\ renders[d].calls = <<"getPixmap", "render">>
                    /\ renders[d].exactBounds \in PixmapBounds)
    /\ [][\A d \in DOMAIN renders :
            /\ renders'[d].calls # renders[d].calls
                  => \E bounds \in PixmapBounds, broken \in SUBSET DocumentIds :
                        /\ GetPixmapResolve(d, bounds, broken)
                        /\ renders'[d].exactBounds = bounds
            /\ (renders[d].stage = "rejected" /\ renders[d].calls = <<"getPixmap">>)
                  => renders'[d] = renders[d]]_vars

\* getPixmap has resolved for a component that is not an svg, and the renderer's
\* render was called with the bounds
C17_Witness ==
    \E d \in DOMAIN renders :
        /\ renders[d].component.extension # "svg"
        /\ renders[d].calls = <<"getPixmap", "render">>
        /\ renders[d].exactBounds \in PixmapBounds

\* the cache of the renderers of kind
Cache(kind) == IF kind = "svg" THEN _svgRenderers ELSE _pixmapRenderers

\* a call of the getter of the renderers of kind
GetterCall(kind, document, broken) ==
    IF kind = "svg"
    THEN GetSVGRendererCall(document, broken)
    ELSE GetPixmapRendererCall(document, broken)

\* C18: the factory makes at most one renderer for a kind and a document id, and
\* that renderer is the one cached; a getter call for a cached pair does not call
\* the factory and leaves the cache as it is; a getter call in which the factory
\* fails throws and caches nothing; a getter call for a pair that is not cached
\* calls the factory, and caches the renderer if the factory makes it.
C18_RendererMadeOnce ==
    /\ [](\A kind \in Kinds, id \in DocumentIds :
            /\ made[<<kind, id>>] <= 1
            /\ id \in DOMAIN Cache(kind) <=> made[<<kind, id>>] = 1
            /\ id \in DOMAIN Cache(kind)
                  => Cache(kind)[id] = [kind |-> kind, document |-> id, serial |-> 1])
    /\ [][\A kind \in Kinds, document \in Documents, broken \in SUBSET DocumentIds :
            GetterCall(kind, document, broken)
               => IF document.id \in DOMAIN Cache(kind)
                  THEN /\ made' = made
                       /\ Cache(kind)' = Cache(kind)
                       /\ last'.threw = "none"
                  ELSE IF document.id \in broken
                  THEN /\ made' = made
                       /\ Cache(kind)' = Cache(kind)
                       /\ last'.threw = "Error"
                  ELSE /\ made'[<<kind, document.id>>] = 1
                       /\ document.id \in DOMAIN Cache(kind)'
                       /\ last'.threw = "none"]_vars

\* a call of _getPixmapRenderer has failed for one document, the renderer of the
\* other document being cached
C18_Witness ==
    /\ last = Ran("_getPixmapRenderer", "Error")
    /\ _pixmapRenderers # EmptyMap
    /\ DOMAIN _pixmapRenderers # DocumentIds

\* the jobs of set but the job of componentId
Others(set, c) == [x \in (DOMAIN set) \ {c} |-> set[x]]

\* the deferreds of the jobs of componentId in _pending and _working
JobsOf(c) ==
    (IF c \in DOMAIN _pending THEN {_pending[c].deferred} ELSE {})
    \cup (IF c \in DOMAIN _working THEN {_working[c].deferred} ELSE {})

\* C19: cancel(componentId) leaves the record and the deferred of every other
\* job, the jobs render() recorded, the timer handle, the timers, the render
\* operations and the renderers as they were; for a componentId with no job in
\* _pending or _working it throws and leaves the whole state as it was.
C19_CancelFrame ==
    [][\A c \in ComponentIds :
         cancel(c)
            => /\ Others(_pending', c) = Others(_pending, c)
               /\ Others(_working', c) = Others(_working, c)
               /\ \A d \in DOMAIN deferreds :
                     d \notin JobsOf(c) => deferreds'[d] = deferreds[d]
               /\ DOMAIN deferreds' = DOMAIN deferreds
               /\ UNCHANGED <<_workSet, _changeTimer, timers, renders,
                              _pixmapRenderers, _svgRenderers, made>>
               /\ JobsOf(c) = {}
                     => /\ last'.threw # "none"
                        /\ UNCHANGED <<_pending, _working, deferreds>>]_vars

\* cancel() has removed a job and another job is still in _pending
C19_Witness == last = Ran("cancel", "none") /\ _pending # EmptyMap

\* C20: _processWorkSet() called in any reachable state, whether the factory
\* fails or not, returns after a chain of nested calls of depth at most the
\* number of jobs in _pending at the call plus one.
C20_DrainTerminates ==
    \A broken \in SUBSET DocumentIds :
        LET s == processWorkSet(Manager, broken)
        IN  /\ s.depth <= Cardinality(DOMAIN _pending) + 1
            /\ s.depth < MaxDepth

\* a timer is due with one job in _pending: its drain promotes the job and calls
\* itself once
C20_Witness ==
    /\ \E t \in LiveTimers : timers[t].elapsed >= timers[t].delay
    /\ Cardinality(DOMAIN _pending) = 1
    /\ processWorkSet(Manager, {}).depth = 2

====
